---- MODULE Spec2Model ----
(***************************************************************************)
(* Model of the static-site generator src/src/build.py.                    *)
(*                                                                         *)
(* A Python str is a sequence of one-character strings, so that strip,     *)
(* replace and the lexicographic order used by sorted() are computed and   *)
(* not assumed.  A list is a sequence, a dict with insertion order is a    *)
(* pair (sequence of keys, function on the keys), a work is a record whose *)
(* domain holds the keys present in its JSON object.                       *)
(***************************************************************************)
EXTENDS Integers, Sequences, FiniteSets, TLC

VARIABLES
    data,           \* the input document works.json as json.loads returns it
    per_page,       \* PER_PAGE, the size given to chunk
    limit,          \* the limit given to get_related_works
    pc,             \* position in the run
    error,          \* the exception that ended the run, or None
    idx,            \* index of the running for loop
    works_sorted,   \* main: works_sorted
    actresses_map,  \* main: actresses_map
    actresses_keys, \* main: actresses_keys
    genres_map,     \* main: genres_map
    genres_keys,    \* main: genres_keys
    search_index,   \* main: search_index
    pages,          \* main: pages
    total_pages,    \* main: total_pages
    works_by_id,    \* main: works_by_id
    actress_to_ids, \* main: actress_to_ids
    written,        \* the calls of write_text and write_json, in order
    related_out,    \* get_related_works: the returned lists, one per work
    slug_in,        \* slugify_simple: the argument s
    slug_out        \* slugify_simple: the returned value

indexes == <<actresses_map, actresses_keys, genres_map, genres_keys,
             works_by_id, actress_to_ids>>

derived == <<works_sorted, actresses_map, actresses_keys, genres_map, genres_keys,
             search_index, pages, total_pages, works_by_id, actress_to_ids>>

inputs == <<data, per_page, limit>>

vars == <<data, per_page, limit, pc, error, idx, works_sorted, actresses_map,
          actresses_keys, genres_map, genres_keys, search_index, pages,
          total_pages, works_by_id, actress_to_ids, written, related_out,
          slug_in, slug_out>>

(***************************************************************************)
(* Strings                                                                 *)
(***************************************************************************)

\* Longest name given to slugify_simple.
MaxNameLen == 3

\* None, where the value is otherwise a non-empty string or a dict.
None == <<>>

\* The characters slugify_simple replaces one by one.
IllegalChars == <<"\\", "/", ":", "*", "?", "\"", "<", ">", "|">>

Illegal == {IllegalChars[i] : i \in 1..Len(IllegalChars)}

\* Characters str.strip() removes (the whitespace of the alphabet).
Whitespace == {" ", "\t"}

Alphabet == Illegal \cup Whitespace \cup {"a", "_"}

\* Unicode code point: the order of Python's str comparison.
Ord(c) ==
    CASE c = "\t" -> 9   [] c = " " -> 32  [] c = "\"" -> 34 [] c = "*" -> 42
      [] c = "." -> 46   [] c = "/" -> 47  [] c = "0" -> 48  [] c = "1" -> 49
      [] c = "2" -> 50   [] c = "3" -> 51  [] c = "4" -> 52  [] c = "5" -> 53
      [] c = "6" -> 54   [] c = "7" -> 55  [] c = "8" -> 56  [] c = "9" -> 57
      [] c = ":" -> 58   [] c = "<" -> 60  [] c = ">" -> 62  [] c = "?" -> 63
      [] c = "\\" -> 92  [] c = "_" -> 95  [] c = "a" -> 97  [] c = "b" -> 98
      [] c = "g" -> 103  [] c = "h" -> 104 [] c = "|" -> 124

\* a < b for Python strings.
StrLess(a, b) ==
    \E k \in 1..Len(b) :
        /\ k <= Len(a) + 1
        /\ \A j \in 1..(k - 1) : a[j] = b[j]
        /\ \/ k = Len(a) + 1
           \/ Ord(a[k]) < Ord(b[k])

\* str.strip(): drop leading and trailing whitespace.
RECURSIVE LStrip(_)
LStrip(s) ==
    IF s # <<>> /\ Head(s) \in Whitespace THEN LStrip(Tail(s)) ELSE s

RECURSIVE RStrip(_)
RStrip(s) ==
    IF s # <<>> /\ s[Len(s)] \in Whitespace
    THEN RStrip(SubSeq(s, 1, Len(s) - 1)) ELSE s

Strip(s) == RStrip(LStrip(s))

\* str.replace(ch, rep) for a one-character ch.
RECURSIVE Replace(_, _, _)
Replace(s, ch, rep) ==
    IF s = <<>> THEN <<>>
    ELSE (IF Head(s) = ch THEN rep ELSE <<Head(s)>>) \o Replace(Tail(s), ch, rep)

\* for ch in [...]: s = s.replace(ch, "_")
RECURSIVE ReplaceEach(_, _)
ReplaceEach(s, chs) ==
    IF chs = <<>> THEN s
    ELSE ReplaceEach(Replace(s, Head(chs), <<"_">>), Tail(chs))

Unknown == <<"u", "n", "k", "n", "o", "w", "n">>

\* slugify_simple without .strip().
slugify_simple_nostrip(s) ==
    LET r == Replace(ReplaceEach(s, IllegalChars), " ", <<"_">>)
    IN  IF r = <<>> THEN Unknown ELSE r

slugify_simple(s) ==
    LET t == Strip(s)
        r == Replace(ReplaceEach(t, IllegalChars), " ", <<"_">>)
    IN  IF r = <<>> THEN Unknown ELSE r

(***************************************************************************)
(* Lists, dicts and works                                                  *)
(***************************************************************************)

Min(a, b) == IF a < b THEN a ELSE b

Max(a, b) == IF a > b THEN a ELSE b

DigitChars == <<"0", "1", "2", "3", "4", "5", "6", "7", "8", "9">>

\* str(n) for an int n >= 0.
RECURSIVE Decimal(_)
Decimal(n) ==
    IF n < 10 THEN <<DigitChars[n + 1]>>
    ELSE Decimal(n \div 10) \o <<DigitChars[(n % 10) + 1]>>

\* w.get(k) or "", w.get(k) or []: an absent key, None and the empty value
\* all give the empty value.
GetOrEmpty(w, k) == IF k \in DOMAIN w THEN w[k] ELSE <<>>

EmptyDict == <<>>

\* d.get(k, [])
DictGet(d, k) == IF k \in DOMAIN d THEN d[k] ELSE <<>>

\* d.setdefault(k, []).append(v)
SetDefaultAppend(d, k, v) ==
    IF k \in DOMAIN d THEN [d EXCEPT ![k] = Append(@, v)]
    ELSE d @@ (k :> <<v>>)

\* sorted(d.keys()): the keys of a dict are distinct.
RECURSIVE SortedKeys(_)
SortedKeys(S) ==
    IF S = {} THEN <<>>
    ELSE LET m == CHOOSE x \in S : \A y \in S \ {x} : StrLess(x, y)
         IN  <<m>> \o SortedKeys(S \ {m})

\* The sort key of sort_works_newest_first and of get_related_works.
DateKey(w) == GetOrEmpty(w, "release_date")

\* One step of a stable descending sort: x goes behind every element whose
\* key is not smaller than its own.
InsertNewestFirst(sorted, x) ==
    LET p == Cardinality({i \in 1..Len(sorted) :
                             ~ StrLess(DateKey(sorted[i]), DateKey(x))})
    IN  SubSeq(sorted, 1, p) \o <<x>> \o SubSeq(sorted, p + 1, Len(sorted))

RECURSIVE SortFrom(_, _)
SortFrom(sorted, rest) ==
    IF rest = <<>> THEN sorted
    ELSE SortFrom(InsertNewestFirst(sorted, Head(rest)), Tail(rest))

\* sorted(works, key=release_date or "", reverse=True): stable, equal keys
\* keep the order of the input.
sort_works_newest_first(works) == SortFrom(<<>>, works)

\* for a in names: index.setdefault(a, []).append(w)
RECURSIVE AppendUnderEach(_, _, _)
AppendUnderEach(index, names, w) ==
    IF names = <<>> THEN index
    ELSE AppendUnderEach(SetDefaultAppend(index, Head(names), w), Tail(names), w)

RECURSIVE IndexBy(_, _, _)
IndexBy(index, works, field) ==
    IF works = <<>> THEN index
    ELSE IndexBy(AppendUnderEach(index, GetOrEmpty(Head(works), field), Head(works)),
                 Tail(works), field)

build_indexes_from_works(works) ==
    LET actresses == IndexBy(EmptyDict, works, "actresses")
        genres    == IndexBy(EmptyDict, works, "tags")
    IN  [actresses      |-> actresses,
         actresses_keys |-> SortedKeys(DOMAIN actresses),
         genres         |-> genres,
         genres_keys    |-> SortedKeys(DOMAIN genres)]

\* chunk with range(0, len(items) - size + 1, size): the short last slice is lost.
RECURSIVE chunk_full_slices(_, _)
chunk_full_slices(items, size) ==
    IF Len(items) < size THEN <<>>
    ELSE <<SubSeq(items, 1, size)>>
         \o chunk_full_slices(SubSeq(items, size + 1, Len(items)), size)

\* [items[i:i + size] for i in range(0, len(items), size)]
RECURSIVE chunk(_, _)
chunk(items, size) ==
    IF items = <<>> THEN <<>>
    ELSE <<SubSeq(items, 1, Min(size, Len(items)))>>
         \o chunk(SubSeq(items, size + 1, Len(items)), size)

SearchRecord(w) ==
    [id           |-> GetOrEmpty(w, "id"),
     release_date |-> GetOrEmpty(w, "release_date"),
     actresses    |-> GetOrEmpty(w, "actresses"),
     tags         |-> GetOrEmpty(w, "tags")]

RECURSIVE make_search_index(_)
make_search_index(works) ==
    IF works = <<>> THEN <<>>
    ELSE (IF GetOrEmpty(Head(works), "id") = <<>> THEN <<>>
          ELSE <<SearchRecord(Head(works))>>)
         \o make_search_index(Tail(works))

\* for ww in works_sorted: if ww.get("id"): works_by_id[str(ww["id"])] = ww
RECURSIVE WorksByIdFrom(_, _)
WorksByIdFrom(by_id, works) ==
    IF works = <<>> THEN by_id
    ELSE LET ww  == Head(works)
             wid == GetOrEmpty(ww, "id")
         IN  WorksByIdFrom(IF wid = <<>> THEN by_id
                           ELSE (wid :> ww) @@ by_id,
                           Tail(works))

\* for a in actresses: if not a: continue; actress_to_ids.setdefault(a, []).append(wid)
RECURSIVE AppendIdUnderEach(_, _, _)
AppendIdUnderEach(index, names, wid) ==
    IF names = <<>> THEN index
    ELSE AppendIdUnderEach(IF Head(names) = <<>> THEN index
                           ELSE SetDefaultAppend(index, Head(names), wid),
                           Tail(names), wid)

RECURSIVE ActressToIdsFrom(_, _)
ActressToIdsFrom(index, works) ==
    IF works = <<>> THEN index
    ELSE LET ww  == Head(works)
             wid == GetOrEmpty(ww, "id")
         IN  ActressToIdsFrom(IF wid = <<>> THEN index
                              ELSE AppendIdUnderEach(index, GetOrEmpty(ww, "actresses"), wid),
                              Tail(works))

Contains(seq, x) == \E i \in 1..Len(seq) : seq[i] = x

\* CollectIds without "if wid == cur_id: continue".
RECURSIVE CollectIdsKeepsCurrent(_, _, _)
CollectIdsKeepsCurrent(related_ids, ids, cur_id) ==
    IF ids = <<>> THEN related_ids
    ELSE CollectIdsKeepsCurrent(IF Contains(related_ids, Head(ids))
                                THEN related_ids
                                ELSE Append(related_ids, Head(ids)),
                                Tail(ids), cur_id)

\* for wid in ids: if wid == cur_id: continue; if wid not in related_ids: append
RECURSIVE CollectIds(_, _, _)
CollectIds(related_ids, ids, cur_id) ==
    IF ids = <<>> THEN related_ids
    ELSE CollectIds(IF Head(ids) = cur_id \/ Contains(related_ids, Head(ids))
                    THEN related_ids
                    ELSE Append(related_ids, Head(ids)),
                    Tail(ids), cur_id)

\* for a in cur_actresses: for wid in actress_to_ids.get(a, []): ...
RECURSIVE CollectRelated(_, _, _)
CollectRelated(related_ids, cur_actresses, cur_id) ==
    IF cur_actresses = <<>> THEN related_ids
    ELSE CollectRelated(
             CollectIds(related_ids, DictGet(actress_to_ids, Head(cur_actresses)), cur_id),
             Tail(cur_actresses), cur_id)

\* [works_by_id[wid] for wid in related_ids if wid in works_by_id]
RECURSIVE LookUp(_)
LookUp(related_ids) ==
    IF related_ids = <<>> THEN <<>>
    ELSE (IF Head(related_ids) \in DOMAIN works_by_id
          THEN <<works_by_id[Head(related_ids)]>> ELSE <<>>)
         \o LookUp(Tail(related_ids))

\* get_related_works without related.sort(...).
get_related_works_unsorted(current_work, lim) ==
    LET cur_id        == GetOrEmpty(current_work, "id")
        cur_actresses == GetOrEmpty(current_work, "actresses")
    IN  IF cur_actresses = <<>> THEN <<>>
        ELSE LET related == LookUp(CollectRelated(<<>>, cur_actresses, cur_id))
             IN  SubSeq(related, 1, Min(lim, Len(related)))

\* The closure of main: it reads main's works_by_id and actress_to_ids.
get_related_works(current_work, lim) ==
    LET cur_id        == GetOrEmpty(current_work, "id")
        cur_actresses == GetOrEmpty(current_work, "actresses")
    IN  IF cur_actresses = <<>> THEN <<>>
        ELSE LET related_ids == CollectRelated(<<>>, cur_actresses, cur_id)
                 related     == sort_works_newest_first(LookUp(related_ids))
             IN  SubSeq(related, 1, Min(lim, Len(related)))

(***************************************************************************)
(* main                                                                    *)
(***************************************************************************)

PER_PAGE == 50

TOP_LIMIT == 100

RELATED_LIMIT == 12

NoError == ""

\* A path below OUT: OUT / dir / seg / file, seg empty where there is none.
Path(dir, seg, file) == [dir |-> dir, seg |-> seg, file |-> file]

\* What a page is written for.
Entity(kind, key) == [kind |-> kind, key |-> key]

\* The arguments of render the claims read; absent ones are empty.
Context == [works |-> <<>>, related |-> <<>>, items |-> <<>>, page |-> 0,
            total_pages |-> 0, prev_href |-> None, next_href |-> None]

\* write_text(path, tpl.render(...)) and write_json(path, ...)
Write(path, by, ctx) == Append(written, [path |-> path, by |-> by, ctx |-> ctx])

IndexHtml == "index.html"

\* f"./{slugify_simple(a)}/"
KeyHref(a) == <<".", "/">> \o slugify_simple(a) \o <<"/">>

\* f"../{n}/"
PageHref(n) == <<".", ".", "/">> \o Decimal(n) \o <<"/">>

\* [{"name": a, "href": f"./{slugify_simple(a)}/"} for a in keys]
KeyItems(keys) == [i \in 1..Len(keys) |-> [name |-> keys[i], href |-> KeyHref(keys[i])]]

Abort(e) ==
    /\ pc' = "aborted"
    /\ error' = e
    /\ UNCHANGED <<inputs, idx, derived, written, related_out, slug_in, slug_out>>

\* load_json and data.get("site_name", ...): a missing file raises, and so
\* does .get on a top-level value that is no dict.
LoadJson ==
    /\ pc = "load"
    /\ IF data.kind = "missing" THEN Abort("FileNotFoundError")
       ELSE IF data.kind = "top_array" THEN Abort("AttributeError")
       ELSE /\ pc' = "sort"
            /\ UNCHANGED <<inputs, error, idx, derived, written, related_out,
                           slug_in, slug_out>>

\* works = data.get("works", []); works_sorted = sort_works_newest_first(works):
\* sorted() raises on None and on a number, and the key function raises on
\* the characters of a non-empty string; an empty string sorts to [].
SortWorks ==
    /\ pc = "sort"
    /\ IF data.kind \in {"works_null", "works_number"} THEN Abort("TypeError")
       ELSE IF data.kind = "works_string" THEN Abort("AttributeError")
       ELSE /\ works_sorted' =
                  IF data.kind = "object" THEN sort_works_newest_first(data.works)
                  ELSE <<>>
            /\ pc' = "indexes"
            /\ UNCHANGED <<inputs, error, idx, actresses_map, actresses_keys,
                           genres_map, genres_keys, search_index, pages, total_pages,
                           works_by_id, actress_to_ids, written, related_out,
                           slug_in, slug_out>>

BuildIndexes ==
    /\ pc = "indexes"
    /\ LET r == build_indexes_from_works(works_sorted)
       IN  /\ actresses_map' = r.actresses
           /\ actresses_keys' = r.actresses_keys
           /\ genres_map' = r.genres
           /\ genres_keys' = r.genres_keys
    /\ pc' = "search_index"
    /\ UNCHANGED <<inputs, error, idx, works_sorted, search_index, pages, total_pages,
                   works_by_id, actress_to_ids, written, related_out, slug_in, slug_out>>

WriteSearchIndex ==
    /\ pc = "search_index"
    /\ search_index' = make_search_index(works_sorted)
    /\ written' = Write(Path("assets", <<>>, "works_index.json"),
                        Entity("search_index", <<>>),
                        [Context EXCEPT !.items = search_index'])
    /\ pc' = "home"
    /\ UNCHANGED <<inputs, error, idx, works_sorted, actresses_map, actresses_keys,
                   genres_map, genres_keys, pages, total_pages, works_by_id,
                   actress_to_ids, related_out, slug_in, slug_out>>

WriteHome ==
    /\ pc = "home"
    /\ written' = Write(Path("", <<>>, IndexHtml), Entity("home", <<>>),
                        [Context EXCEPT
                           !.works = SubSeq(works_sorted, 1,
                                            Min(TOP_LIMIT, Len(works_sorted)))])
    /\ pc' = "search_page"
    /\ UNCHANGED <<inputs, error, idx, derived, related_out, slug_in, slug_out>>

WriteSearchPage ==
    /\ pc = "search_page"
    /\ written' = Write(Path("search", <<>>, IndexHtml), Entity("search", <<>>), Context)
    /\ pc' = "paginate"
    /\ UNCHANGED <<inputs, error, idx, derived, related_out, slug_in, slug_out>>

\* pages = chunk(works_sorted, PER_PAGE); total_pages = max(1, len(pages))
Paginate ==
    /\ pc = "paginate"
    /\ pages' = chunk(works_sorted, per_page)
    /\ total_pages' = Max(1, Len(pages'))
    /\ idx' = 1
    /\ pc' = IF pages' = <<>> THEN "works_by_id" ELSE "pages"
    /\ UNCHANGED <<inputs, error, works_sorted, actresses_map, actresses_keys,
                   genres_map, genres_keys, search_index, works_by_id,
                   actress_to_ids, written, related_out, slug_in, slug_out>>

\* for i, page_works in enumerate(pages, start=1): one pass of the body
WriteListingPage ==
    /\ pc = "pages"
    /\ LET i == idx
       IN  written' = Write(Path("pages", Decimal(i), IndexHtml),
                            Entity("page", Decimal(i)),
                            [Context EXCEPT
                               !.works = pages[i],
                               !.page = i,
                               !.total_pages = total_pages,
                               !.prev_href = IF i > 1 THEN PageHref(i - 1) ELSE None,
                               !.next_href = IF i < total_pages THEN PageHref(i + 1)
                                             ELSE None])
    /\ idx' = IF idx = Len(pages) THEN 1 ELSE idx + 1
    /\ pc' = IF idx = Len(pages) THEN "works_by_id" ELSE "pages"
    /\ UNCHANGED <<inputs, error, derived, related_out, slug_in, slug_out>>

\* works_by_id left to be filled inside the emission loop.
BuildWorksByIdDeferred ==
    /\ pc = "works_by_id"
    /\ pc' = "actress_to_ids"
    /\ UNCHANGED <<inputs, error, idx, derived, written, related_out, slug_in, slug_out>>

BuildWorksById ==
    /\ pc = "works_by_id"
    /\ works_by_id' = WorksByIdFrom(EmptyDict, works_sorted)
    /\ pc' = "actress_to_ids"
    /\ UNCHANGED <<inputs, error, idx, works_sorted, actresses_map, actresses_keys,
                   genres_map, genres_keys, search_index, pages, total_pages,
                   actress_to_ids, written, related_out, slug_in, slug_out>>

BuildActressToIds ==
    /\ pc = "actress_to_ids"
    /\ actress_to_ids' = ActressToIdsFrom(EmptyDict, works_sorted)
    /\ idx' = 1
    /\ pc' = IF works_sorted = <<>> THEN "actresses_index" ELSE "works"
    /\ UNCHANGED <<inputs, error, works_sorted, actresses_map, actresses_keys,
                   genres_map, genres_keys, search_index, pages, total_pages,
                   works_by_id, written, related_out, slug_in, slug_out>>

\* for w in works_sorted: one pass of the body, the continue included
WriteWorkPage ==
    /\ pc = "works"
    /\ LET w   == works_sorted[idx]
           wid == GetOrEmpty(w, "id")
       IN  written' =
               IF wid = <<>> THEN written
               ELSE Write(Path("works", wid, IndexHtml), Entity("work", wid),
                          [Context EXCEPT !.works = <<w>>,
                                          !.related = get_related_works(w, limit)])
    /\ idx' = IF idx = Len(works_sorted) THEN 1 ELSE idx + 1
    /\ pc' = IF idx = Len(works_sorted) THEN "actresses_index" ELSE "works"
    /\ UNCHANGED <<inputs, error, derived, related_out, slug_in, slug_out>>

WriteActressesIndex ==
    /\ pc = "actresses_index"
    /\ written' = Write(Path("actresses", <<>>, IndexHtml), Entity("actresses_index", <<>>),
                        [Context EXCEPT !.items = KeyItems(actresses_keys)])
    /\ idx' = 1
    /\ pc' = IF actresses_keys = <<>> THEN "genres_index" ELSE "actresses"
    /\ UNCHANGED <<inputs, error, derived, related_out, slug_in, slug_out>>

\* for a in actresses_keys: one pass of the body
WriteActressPage ==
    /\ pc = "actresses"
    /\ LET a == actresses_keys[idx]
       IN  written' = Write(Path("actresses", slugify_simple(a), IndexHtml),
                            Entity("actress", a),
                            [Context EXCEPT !.works = DictGet(actresses_map, a)])
    /\ idx' = IF idx = Len(actresses_keys) THEN 1 ELSE idx + 1
    /\ pc' = IF idx = Len(actresses_keys) THEN "genres_index" ELSE "actresses"
    /\ UNCHANGED <<inputs, error, derived, related_out, slug_in, slug_out>>

WriteGenresIndex ==
    /\ pc = "genres_index"
    /\ written' = Write(Path("genres", <<>>, IndexHtml), Entity("genres_index", <<>>),
                        [Context EXCEPT !.items = KeyItems(genres_keys)])
    /\ idx' = 1
    /\ pc' = IF genres_keys = <<>> THEN "done" ELSE "genres"
    /\ UNCHANGED <<inputs, error, derived, related_out, slug_in, slug_out>>

\* for g in genres_keys: one pass of the body
WriteGenrePage ==
    /\ pc = "genres"
    /\ LET g == genres_keys[idx]
       IN  written' = Write(Path("genres", slugify_simple(g), IndexHtml),
                            Entity("genre", g),
                            [Context EXCEPT !.works = DictGet(genres_map, g)])
    /\ idx' = IF idx = Len(genres_keys) THEN 1 ELSE idx + 1
    /\ pc' = IF idx = Len(genres_keys) THEN "done" ELSE "genres"
    /\ UNCHANGED <<inputs, error, derived, related_out, slug_in, slug_out>>

(***************************************************************************)
(* Input documents                                                         *)
(***************************************************************************)

\* Most works of a catalog given to main.
MaxWorks == 2

\* What a work of a catalog is made of: whether its id is valid, empty or
\* absent, its release date, its performers and its tags.
WorkShapes(idKinds, dates, actressLists, tagLists) ==
    [id : idKinds, release_date : dates, actresses : actressLists, tags : tagLists]

\* The work at position k of a catalog.  Ids are unique within a catalog
\* (merge_works of the fetch step keys the works by id), so a work with an
\* id has the id of its position.
WorkAt(shape, k) ==
    IF shape.id = "absent"
    THEN [release_date |-> shape.release_date, actresses |-> shape.actresses,
          tags |-> shape.tags]
    ELSE [id |-> IF shape.id = "valid" THEN Decimal(k) ELSE <<>>,
          release_date |-> shape.release_date, actresses |-> shape.actresses,
          tags |-> shape.tags]

RECURSIVE CatalogFrom(_, _)
CatalogFrom(shapes, k) ==
    IF k > Len(shapes) THEN <<>>
    ELSE <<WorkAt(shapes[k], k)>> \o CatalogFrom(shapes, k + 1)

Document(kind, works) == [kind |-> kind, works |-> works]

\* data is {"works": [...]} with at most max works of the given shapes.
IsCatalogDocument(max, shapes) ==
    \E n \in 0..max : \E c \in [1..n -> shapes] :
        data = Document("object", CatalogFrom(c, 1))

\* Two performers and two genres whose slugs collide.
PerformerA == <<"a", " ", "b">>

PerformerB == <<"a", "_", "b">>

GenreG == <<"g", "/", "h">>

GenreH == <<"g", ":", "h">>

\* Documents that parse and are not {"works": [ {...}, ... ]}: a top-level
\* list, and a "works" that is null, a number, a non-empty string, "".
MalformedDocuments ==
    {Document("top_array", <<>>), Document("works_null", <<>>),
     Document("works_number", <<>>), Document("works_string", <<>>),
     Document("works_empty_string", <<>>)}

MainShapes ==
    WorkShapes({"valid", "empty", "absent"}, {<<>>, <<"1">>},
               {<<>>, <<PerformerA>>, <<PerformerB>>},
               {<<>>, <<GenreG, GenreH>>})

Blank ==
    /\ error = NoError
    /\ idx = 1
    /\ works_sorted = <<>>
    /\ actresses_map = EmptyDict
    /\ actresses_keys = <<>>
    /\ genres_map = EmptyDict
    /\ genres_keys = <<>>
    /\ search_index = <<>>
    /\ pages = <<>>
    /\ total_pages = 0
    /\ works_by_id = EmptyDict
    /\ actress_to_ids = EmptyDict
    /\ written = <<>>
    /\ related_out = <<>>
    /\ slug_out = None

Init ==
    /\ \/ IsCatalogDocument(MaxWorks, MainShapes)
       \/ data \in MalformedDocuments
                   \cup {Document("missing", <<>>), Document("no_works", <<>>)}
    /\ per_page = PER_PAGE
    /\ limit = RELATED_LIMIT
    /\ pc = "load"
    /\ slug_in = <<>>
    /\ Blank

Next ==
    \/ LoadJson
    \/ SortWorks
    \/ BuildIndexes
    \/ WriteSearchIndex
    \/ WriteHome
    \/ WriteSearchPage
    \/ Paginate
    \/ WriteListingPage
    \/ BuildWorksById
    \/ BuildActressToIds
    \/ WriteWorkPage
    \/ WriteActressesIndex
    \/ WriteActressPage
    \/ WriteGenresIndex
    \/ WriteGenrePage

Spec == Init /\ [][Next]_vars

(***************************************************************************)
(* The listing pages for every page size: main up to its pagination loop   *)
(***************************************************************************)

\* Most works of a paginated catalog.
MaxPageWorks == 5

\* Largest page size.
MaxPerPage == 2

PageShapes ==
    WorkShapes({"valid", "empty"}, {<<>>, <<"1">>, <<"2">>}, {<<>>}, {<<>>})

InitPages ==
    /\ IsCatalogDocument(MaxPageWorks, PageShapes)
    /\ per_page \in 1..MaxPerPage
    /\ limit = RELATED_LIMIT
    /\ pc = "load"
    /\ slug_in = <<>>
    /\ Blank

NextPages ==
    \/ LoadJson
    \/ SortWorks
    \/ BuildIndexes
    \/ WriteSearchIndex
    \/ WriteHome
    \/ WriteSearchPage
    \/ Paginate
    \/ WriteListingPage

SpecPages == InitPages /\ [][NextPages]_vars

(***************************************************************************)
(* build_indexes_from_works applied to every small catalog                 *)
(***************************************************************************)

\* Most works of an indexed catalog.
MaxIndexWorks == 2

IndexShapes ==
    WorkShapes({"valid", "empty", "absent"}, {<<>>},
               {<<>>, <<PerformerA>>, <<PerformerB>>, <<PerformerA, PerformerA>>,
                <<PerformerA, PerformerB>>, <<PerformerB, PerformerA>>},
               {<<>>, <<GenreG>>, <<GenreG, GenreG>>, <<GenreH, GenreG>>})

InitIndex ==
    /\ IsCatalogDocument(MaxIndexWorks, IndexShapes)
    /\ per_page = PER_PAGE
    /\ limit = RELATED_LIMIT
    /\ pc = "index"
    /\ slug_in = <<>>
    /\ Blank

ApplyBuildIndexes ==
    /\ pc = "index"
    /\ LET r == build_indexes_from_works(data.works)
       IN  /\ actresses_map' = r.actresses
           /\ actresses_keys' = r.actresses_keys
           /\ genres_map' = r.genres
           /\ genres_keys' = r.genres_keys
    /\ pc' = "indexed"
    /\ UNCHANGED <<inputs, error, idx, works_sorted, search_index, pages, total_pages,
                   works_by_id, actress_to_ids, written, related_out, slug_in, slug_out>>

NextIndex == ApplyBuildIndexes

SpecIndex == InitIndex /\ [][NextIndex]_vars

(***************************************************************************)
(* get_related_works applied to every work of every small catalog          *)
(***************************************************************************)

\* Most works of a catalog whose related works are resolved.
MaxRelatedWorks == 3

\* Largest limit given to get_related_works.
MaxLimit == 2

RelatedShapes ==
    WorkShapes({"valid", "empty"}, {<<>>, <<"1">>, <<"2">>},
               {<<>>, <<PerformerA>>, <<PerformerB>>, <<PerformerA, PerformerB>>},
               {<<>>})

InitRelated ==
    /\ IsCatalogDocument(MaxRelatedWorks, RelatedShapes)
    /\ per_page = PER_PAGE
    /\ limit = RELATED_LIMIT
    /\ pc = "relate"
    /\ slug_in = <<>>
    /\ Blank

\* What get_related_works closes over, as main builds it.
RelationIndexes ==
    /\ pc = "relate"
    /\ works_sorted' = sort_works_newest_first(data.works)
    /\ works_by_id' = WorksByIdFrom(EmptyDict, works_sorted')
    /\ actress_to_ids' = ActressToIdsFrom(EmptyDict, works_sorted')
    /\ pc' = "related_indexes"
    /\ UNCHANGED <<inputs, error, idx, actresses_map, actresses_keys, genres_map,
                   genres_keys, search_index, pages, total_pages, written,
                   related_out, slug_in, slug_out>>

\* related_works = get_related_works(w, limit=...) for every w of works_sorted
ApplyRelated ==
    /\ pc = "related_indexes"
    /\ \E l \in 0..MaxLimit :
          /\ limit' = l
          /\ related_out' = [i \in 1..Len(works_sorted) |->
                                get_related_works(works_sorted[i], l)]
    /\ pc' = "related"
    /\ UNCHANGED <<data, per_page, error, idx, derived, written, slug_in, slug_out>>

NextRelated == RelationIndexes \/ ApplyRelated

SpecRelated == InitRelated /\ [][NextRelated]_vars

(***************************************************************************)
(* slugify_simple applied to every short name                              *)
(***************************************************************************)

RECURSIVE StrsUpTo(_, _)
StrsUpTo(chars, n) ==
    IF n = 0 THEN {<<>>}
    ELSE LET shorter == StrsUpTo(chars, n - 1)
         IN  shorter \cup {<<c>> \o s : c \in chars, s \in {t \in shorter : Len(t) = n - 1}}

InitSlug ==
    /\ Blank
    /\ data = Document("no_works", <<>>)
    /\ per_page = PER_PAGE
    /\ limit = RELATED_LIMIT
    /\ slug_in \in StrsUpTo(Alphabet, MaxNameLen)
    /\ pc = "slug"

ApplySlugify ==
    /\ pc = "slug"
    /\ slug_out' = slugify_simple(slug_in)
    /\ pc' = "slugged"
    /\ UNCHANGED <<inputs, error, idx, derived, written, related_out, slug_in>>

NextSlug == ApplySlugify

SpecSlug == InitSlug /\ [][NextSlug]_vars

(***************************************************************************)
(* Claims                                                                  *)
(***************************************************************************)

Range(seq) == {seq[i] : i \in 1..Len(seq)}

\* The name without its leading and trailing whitespace, read off the
\* positions of its first and last character that is no whitespace.
Trimmed(s) ==
    LET solid == {i \in 1..Len(s) : s[i] \notin Whitespace}
    IN  IF solid = {} THEN <<>>
        ELSE LET lo == CHOOSE i \in solid : \A j \in solid : i <= j
                 hi == CHOOSE i \in solid : \A j \in solid : j <= i
             IN  SubSeq(s, lo, hi)

\* C3 as stated: slugify_simple strips every illegal character (none is
\* left and none is replaced), leaves no whitespace, and a name that is empty
\* or made of illegal characters only gives "unknown".
C3_StripsIllegalOrUnknown ==
    pc = "slugged" =>
        /\ \A i \in 1..Len(slug_out) : slug_out[i] \notin Illegal \cup Whitespace
        /\ slug_out # Unknown =>
              Len(slug_out) <= Cardinality({i \in 1..Len(slug_in) : slug_in[i] \notin Illegal})
        /\ (\A i \in 1..Len(slug_in) : slug_in[i] \in Illegal) => slug_out = Unknown

\* C3 amended: slugify_simple trims the name, then puts an underscore in the
\* place of every illegal character and of every space and keeps every other
\* character where it is; only a name that is empty once trimmed gives
\* "unknown" (so "" does, and "???" gives "___").
C3_ReplacesIllegalByUnderscore ==
    pc = "slugged" =>
        LET t == Trimmed(slug_in)
        IN  /\ t = <<>> => slug_out = Unknown
            /\ t # <<>> =>
                  /\ Len(slug_out) = Len(t)
                  /\ \A i \in 1..Len(t) :
                        slug_out[i] = IF t[i] \in Illegal \cup {" "} THEN "_" ELSE t[i]
            /\ \A i \in 1..Len(slug_out) : slug_out[i] \notin Illegal \cup {" "}

\* "???" has been sanitized to "___".
C3_Witness ==
    /\ pc = "slugged"
    /\ slug_in = <<"?", "?", "?">>
    /\ slug_out = <<"_", "_", "_">>

\* The writes of the listing pages, in the order they were made.
ListingWrites == SelectSeq(written, LAMBDA x : x.by.kind = "page")

RECURSIVE Concat(_)
Concat(seqs) == IF seqs = <<>> THEN <<>> ELSE Head(seqs) \o Concat(Tail(seqs))

\* ceil(n / s)
CeilDiv(n, s) == (n + s - 1) \div s

\* sorted is the catalog newest first: the same works, the dates never
\* growing, works of equal date in the order of the catalog.
IsNewestFirst(sorted, catalog) ==
    /\ Len(sorted) = Len(catalog)
    /\ \E p \in Permutations(1..Len(catalog)) :
          /\ \A i \in 1..Len(catalog) : sorted[i] = catalog[p[i]]
          /\ \A i, j \in 1..Len(catalog) :
                i < j => /\ ~ StrLess(DateKey(sorted[i]), DateKey(sorted[j]))
                         /\ DateKey(sorted[i]) = DateKey(sorted[j]) => p[i] < p[j]

\* C2 as stated: a catalog of n works at page size s gets exactly
\* max(1, ceil(n / s)) listing pages pages/1 .. pages/total_pages, and the
\* empty catalog gets the one empty page pages/1 without neighbours.
C2_AtLeastOneListingPage ==
    pc = "works_by_id" =>
        LET n == Len(data.works)
            listing == ListingWrites
        IN  /\ total_pages = Max(1, CeilDiv(n, per_page))
            /\ Len(listing) = total_pages
            /\ \A i \in 1..Len(listing) :
                  listing[i].path = Path("pages", Decimal(i), IndexHtml)
            /\ n = 0 => /\ Len(listing) = 1
                        /\ listing[1].ctx.works = <<>>
                        /\ listing[1].ctx.prev_href = None
                        /\ listing[1].ctx.next_href = None

\* C9: for a catalog that is not empty the listing pages are the slices
\* of the newest-first catalog: page i is written to pages/i, the pages put
\* together are the sorted catalog, every page but the last holds per_page
\* works and the last from 1 to per_page, page i links to i - 1 exactly when
\* i > 1 and to i + 1 exactly when i < total_pages.
C9_PagesAreSlices ==
    (pc = "works_by_id" /\ data.works # <<>>) =>
        LET listing == ListingWrites
            last == Len(listing)
        IN  /\ IsNewestFirst(works_sorted, data.works)
            /\ last = CeilDiv(Len(data.works), per_page)
            /\ total_pages = last
            /\ Concat([i \in 1..last |-> listing[i].ctx.works]) = works_sorted
            /\ \A i \in 1..last :
                  /\ listing[i].path = Path("pages", Decimal(i), IndexHtml)
                  /\ listing[i].ctx.page = i
                  /\ listing[i].ctx.total_pages = last
                  /\ i < last => Len(listing[i].ctx.works) = per_page
                  /\ i = last => Len(listing[i].ctx.works) \in 1..per_page
                  /\ listing[i].ctx.prev_href =
                        IF i > 1 THEN <<".", ".", "/">> \o Decimal(i - 1) \o <<"/">>
                        ELSE None
                  /\ listing[i].ctx.next_href =
                        IF i < last THEN <<".", ".", "/">> \o Decimal(i + 1) \o <<"/">>
                        ELSE None

\* Five works at two a page, the catalog not yet newest first: pages of
\* 2, 2 and 1 works have been written, the second linking to both others.
C9_Witness ==
    /\ pc = "works_by_id"
    /\ Len(data.works) = 5
    /\ per_page = 2
    /\ works_sorted # data.works
    /\ Len(ListingWrites) = 3
    /\ Len(ListingWrites[2].ctx.works) = 2
    /\ Len(ListingWrites[3].ctx.works) = 1
    /\ ListingWrites[2].ctx.prev_href = <<".", ".", "/", "1", "/">>
    /\ ListingWrites[2].ctx.next_href = <<".", ".", "/", "3", "/">>

\* The works of the input catalog without an id (absent or empty).
NoId(w) == GetOrEmpty(w, "id") = <<>>

\* C1 as stated: after a full build a work without an id is in no
\* performer bucket and in no genre bucket, is no value of works_by_id, has
\* no entry in the performer-to-id lists, and has no page under works/.
C1_NoIdWorkExcluded ==
    pc = "done" =>
        \A k \in 1..Len(data.works) :
            LET w == data.works[k]
            IN  NoId(w) =>
                  /\ \A a \in DOMAIN actresses_map : ~ Contains(actresses_map[a], w)
                  /\ \A g \in DOMAIN genres_map : ~ Contains(genres_map[g], w)
                  /\ \A i \in DOMAIN works_by_id : works_by_id[i] # w
                  /\ \A a \in DOMAIN actress_to_ids :
                        ~ Contains(actress_to_ids[a], GetOrEmpty(w, "id"))
                  /\ \A x \in Range(written) :
                        x.by.kind = "work" => x.ctx.works # <<w>>

\* C5 as stated: a document that parses and is malformed never aborts
\* the build, which runs to completion on the empty catalog.
C5_MalformedInputRecovered ==
    data \in MalformedDocuments =>
        /\ pc # "aborted"
        /\ pc = "done" => works_sorted = <<>>

\* C6 as stated: distinct work ids, performer keys, genre keys and page
\* numbers are written to pairwise distinct output paths.
C6_DistinctEntitiesDistinctPaths ==
    \A i, j \in 1..Len(written) :
        written[i].by # written[j].by => written[i].path # written[j].path

\* A page of a work, of a performer or of a genre has been written.
EmissionBegun ==
    \E i \in 1..Len(written) : written[i].by.kind \in {"work", "actress", "genre"}

\* Every index holds what it holds at the end of the run.
IndexesBuilt ==
    LET r == build_indexes_from_works(works_sorted)
    IN  /\ actresses_map = r.actresses
        /\ actresses_keys = r.actresses_keys
        /\ genres_map = r.genres
        /\ genres_keys = r.genres_keys
        /\ works_by_id = WorksByIdFrom(EmptyDict, works_sorted)
        /\ actress_to_ids = ActressToIdsFrom(EmptyDict, works_sorted)

\* C10: when the first page of a work, a performer or a genre is written
\* all indexes are complete, and no step that follows (nor the one that
\* writes that page) changes an index.
C10_IndexesBeforeEmission ==
    /\ [](EmissionBegun => IndexesBuilt)
    /\ [][EmissionBegun' => UNCHANGED indexes]_vars

\* The first work page is being followed by more pages, all indexes filled.
C10_Witness ==
    /\ EmissionBegun
    /\ pc = "actresses"
    /\ works_by_id # EmptyDict
    /\ actress_to_ids # EmptyDict
    /\ actresses_map # EmptyDict
    /\ genres_map # EmptyDict

\* The elements of seq at the positions S, in the order of seq.
RECURSIVE AtPositions(_, _, _)
AtPositions(seq, S, k) ==
    IF k > Len(seq) THEN <<>>
    ELSE (IF k \in S THEN <<seq[k]>> ELSE <<>>) \o AtPositions(seq, S, k + 1)

\* Every name has the bucket of the works that list it, once each, in the
\* order of the catalog, and a name no work lists has no bucket.
BucketsMatch(index, catalog, field) ==
    LET names == DOMAIN index
                 \cup UNION {Range(GetOrEmpty(catalog[k], field)) : k \in 1..Len(catalog)}
    IN  \A name \in names :
            LET listing == {k \in 1..Len(catalog) :
                               Contains(GetOrEmpty(catalog[k], field), name)}
            IN  /\ name \in DOMAIN index
                /\ Len(index[name]) = Cardinality(listing)
                /\ index[name] = AtPositions(catalog, listing, 1)

\* C4 as stated: build_indexes_from_works puts each work under every
\* performer and tag it lists and under no other, the length of a bucket is
\* the number of works that list its name (works that repeat a name
\* included), and a bucket is in catalog order.
C4_BucketsMatchListings ==
    pc = "indexed" =>
        /\ BucketsMatch(actresses_map, data.works, "actresses")
        /\ BucketsMatch(genres_map, data.works, "tags")

SharesPerformer(w, v) ==
    Range(GetOrEmpty(w, "actresses")) \cap Range(GetOrEmpty(v, "actresses")) # {}

\* The positions in works_sorted of the works with an id that share a
\* performer with the work at position i, that work left out.
Candidates(i) ==
    {j \in 1..Len(works_sorted) :
        /\ j # i
        /\ ~ NoId(works_sorted[j])
        /\ SharesPerformer(works_sorted[i], works_sorted[j])}

\* C7: for a work w with an id, get_related_works(w, limit) holds
\* min(limit, number of candidates) candidates, each once, newest first (the
\* empty date last), and no candidate left out is newer than one returned;
\* so it never holds w, never more than limit works, and is empty when w
\* has no performers.
C7_RelatedAreNewestCandidates ==
    pc = "related" =>
        \A i \in 1..Len(works_sorted) :
            ~ NoId(works_sorted[i]) =>
                LET r == related_out[i]
                    cand == Candidates(i)
                IN  /\ Len(r) = Min(limit, Cardinality(cand))
                    /\ \A k \in 1..Len(r) : \E j \in cand : r[k] = works_sorted[j]
                    /\ \A k, l \in 1..Len(r) :
                          k < l => /\ r[k] # r[l]
                                   /\ ~ StrLess(DateKey(r[k]), DateKey(r[l]))
                    /\ \A j \in cand :
                          works_sorted[j] \notin Range(r) =>
                             \A k \in 1..Len(r) :
                                ~ StrLess(DateKey(r[k]), DateKey(works_sorted[j]))
                    /\ works_sorted[i] \notin Range(r)
                    /\ Len(r) <= limit
                    /\ GetOrEmpty(works_sorted[i], "actresses") = <<>> => r = <<>>

\* A work with two candidates got the one of them the limit of 1 leaves.
C7_Witness ==
    /\ pc = "related"
    /\ limit = 1
    /\ \E i \in 1..Len(works_sorted) :
          /\ ~ NoId(works_sorted[i])
          /\ Cardinality(Candidates(i)) = 2
          /\ Len(related_out[i]) = 1

\* The orders a list can be put in.
PermutationsOf(seq) ==
    {[k \in 1..Len(seq) |-> seq[p[k]]] : p \in Permutations(1..Len(seq))}

\* get_related_works gives the work at position i the same list however
\* the work's own actresses are ordered.
SameUnderPermutation(i) ==
    \A q \in PermutationsOf(GetOrEmpty(works_sorted[i], "actresses")) :
        get_related_works([works_sorted[i] EXCEPT !.actresses = q], limit)
            = related_out[i]

DistinctDates(S) ==
    \A j, k \in S : j # k => DateKey(works_sorted[j]) # DateKey(works_sorted[k])

\* C8 as stated: permuting a work's own actresses never changes what
\* get_related_works returns for it, candidates of equal release_date
\* included.
C8_OrderOfActressesIrrelevant ==
    pc = "related" =>
        \A i \in 1..Len(works_sorted) :
            ~ NoId(works_sorted[i]) => SameUnderPermutation(i)

\* C8 amended: permuting a work's own actresses does not change what
\* get_related_works returns for it when its candidates have pairwise
\* distinct release dates.
C8_IrrelevantForDistinctDates ==
    pc = "related" =>
        \A i \in 1..Len(works_sorted) :
            (~ NoId(works_sorted[i]) /\ DistinctDates(Candidates(i)))
                => SameUnderPermutation(i)

\* A work listing two performers has one candidate under each, of distinct
\* dates and found oldest first, and both are returned.
C8_Witness ==
    /\ pc = "related"
    /\ limit = 2
    /\ \E i \in 1..Len(works_sorted) :
          /\ ~ NoId(works_sorted[i])
          /\ GetOrEmpty(works_sorted[i], "actresses") = <<PerformerA, PerformerB>>
          /\ Cardinality(Candidates(i)) = 2
          /\ DistinctDates(Candidates(i))
          /\ Len(related_out[i]) = 2
          /\ GetOrEmpty(related_out[i][1], "actresses") = <<PerformerB>>
          /\ GetOrEmpty(related_out[i][2], "actresses") = <<PerformerA>>

====
